---- MODULE Spec2Model ----
(***************************************************************************)
(* Model of the HTTP middleware of functions/api:                          *)
(*   - RequestExtractorMiddleware  (src/middleware/request_extractor.py)   *)
(*   - RequestLogger               (src/middleware/request_logger.py)      *)
(*   - Logger / JSONFormatter      (src/utils/logger.py)                   *)
(*   - the exception handlers      (src/middleware/exception.py)           *)
(*   - the assembled application   (src/handler.py)                        *)
(*                                                                         *)
(* A Python str is the record Str(s) of a TLA+ string s, so that it can be  *)
(* told from None.  Byte strings whose content is only decoded and parsed  *)
(* are literals, with decode() and json.loads given as tables over them.   *)
(***************************************************************************)
EXTENDS Integers, Sequences, FiniteSets, TLC

VARIABLES
    pc,         \* pc[r]: where the coroutine serving request r is suspended
    request,    \* request[r]: the Request object (url, headers, body, state)
    response,   \* response[r]: the Response object the next stage produced / that is returned
    exc,        \* exc[r]: the exception that left the middleware, if any
    nextCalls,  \* nextCalls[r]: how many times call_next(request) was invoked
    stateSeen,  \* stateSeen[r]: request.state as it was when call_next(request) was invoked
    produced,   \* produced[r]: the response call_next(request) returned, as the next stage made it
    stages,     \* stages[r]: the middleware and handlers that ran for request r, in order
    uuids,      \* how many uuid4() values were drawn
    loggers,    \* the logging module's registry: for each logger name its state
    log,        \* the log sink: the lines the logging handlers wrote, in order
    callerPayload,  \* the payload object a caller of the Logger holds
    calls,      \* the calls that caller made on the Logger, in order
    async_wrapper   \* an AsyncIteratorWrapper a caller iterates by hand

vars == <<pc, request, response, exc, nextCalls, stateSeen, produced, stages, uuids,
          loggers, log, callerPayload, calls, async_wrapper>>

----------------------------------------------------------------------------
(* Bounds of the model *)

\* longest host name the routing middleware is given
MaxHostLen == 7

\* most chunks a response body stream yields
MaxChunks == 2

\* the most items of a payload mapping handed to the Logger
MaxItems == 2

\* the most Loggers constructed in one process
MaxConstructions == 3

\* the most calls made on one Logger
MaxCalls == 2

----------------------------------------------------------------------------
(* Values *)

\* Python's None, also used for an attribute that was never set
None == [t |-> "None"]

\* the requests served; each runs its own coroutine
Reqs == {"r1", "r2"}

\* characters host names are made of.  request.url.hostname is produced by
\* urllib's urlsplit, which strips line breaks, so no host name holds one.
HostChars == {"t", "c", "."}

\* the strings of at most n characters of S
RECURSIVE StringsUpTo(_, _)
StringsUpTo(S, n) ==
    IF n = 0 THEN {""}
    ELSE LET shorter == StringsUpTo(S, n - 1)
         IN  shorter \cup {s \o c : s \in {x \in shorter : Len(x) = n - 1}, c \in S}

\* the i-th character of the string s
Char(s, i) == SubSeq(s, i, i)

\* a Python str
Str(s) == [t |-> "str", v |-> s]

\* request.url.hostname: a str, or None when the request names no host
Hostnames == {Str(h) : h \in StringsUpTo(HostChars, MaxHostLen)} \cup {None}

\* api_host, the constructor argument of RequestExtractorMiddleware: "c.c"
api_host == "c.c"

\* self.allowed_endpoints
allowed_endpoints == {"/health", "/service", "/docs", "/openapi.json"}

\* request.url.path of the requests of the model
Paths == allowed_endpoints \cup {"/v1/sources", "/health/"}

\* a fresh request.state: no attribute set
EmptyState == [id |-> None, request_id |-> None]

\* the request headers the code reads
HeaderNames == {"content-type", "x-forwarded-for", "request_id"}

\* a request without any of them
NoHeaders == [h \in HeaderNames |-> None]

\* the headers of a response of the next stage
JsonHeaders == "content-type" :> "application/json"

\* an iterator over items that has yielded the first next - 1 of them;
\* raises: it raises once they are all yielded, instead of stopping
Iterator(items, raises) == [items |-> items, next |-> 1, raises |-> raises]

\* the response call_next returns: its body is the stream body_iterator
StreamingResponse(status_code, chunks, raises) ==
    [t |-> "Response", status_code |-> status_code, headers |-> JsonHeaders,
     body_iterator |-> Iterator(chunks, raises), body |-> None]

\* the names loggers are created under: handler.py's service name and the tests'
LoggerNames == {"home-infrastructure", "test_service"}

\* the exceptions the model raises
HTTPNotFoundError(error_code, message) ==
    [type |-> "HTTPNotFoundError", error_code |-> error_code, message |-> message]

TypeError(message) ==
    [type |-> "TypeError", error_code |-> "", message |-> message]

UnicodeDecodeError ==
    [type |-> "UnicodeDecodeError", error_code |-> "",
     message |-> "'utf-8' codec can't decode byte 0xff in position 0: invalid start byte"]

\* an error of the next stage that no handler classifies
RuntimeError(message) ==
    [type |-> "RuntimeError", error_code |-> "", message |-> message]

----------------------------------------------------------------------------
(* RequestExtractorMiddleware *)

\* $ of a Python regular expression: the end of the string, or just before
\* a line break that ends the string
AtDollar(s, i) ==
    \/ i = Len(s) + 1
    \/ i = Len(s) /\ Char(s, i) = "\n"

\* the literal re.escape(api_host) at position i of s; the position after it, or 0
EscapedHostAt(s, i) ==
    IF /\ i + Len(api_host) - 1 <= Len(s)
       /\ \A k \in 1..Len(api_host) : Char(s, i + k - 1) = Char(api_host, k)
    THEN i + Len(api_host)
    ELSE 0

\* the pattern without its closing $
PatternMatchNoDollar(hostname) ==
    LET ends == {i \in 1..Len(hostname) :
                    /\ \A j \in 1..i : Char(hostname, j) # "."
                    /\ i + 1 <= Len(hostname) /\ Char(hostname, i + 1) = "."
                    /\ EscapedHostAt(hostname, i + 2) # 0}
    IN  IF ends = {} THEN None
        ELSE [t |-> "Match", id |-> Str(SubSeq(hostname, 1, CHOOSE i \in ends : TRUE))]

\* self.pattern.match(hostname) for a string hostname, with
\* pattern = ^(?P<id>[^.]+)\.<re.escape(api_host)>$ : the match with its
\* group "id", or None.  [^.]+ takes one or more characters none of which is
\* a dot, so a match ends the group at the first dot of the string.
PatternMatch(hostname) ==
    LET ends == {i \in 1..Len(hostname) :
                    /\ \A j \in 1..i : Char(hostname, j) # "."
                    /\ i + 1 <= Len(hostname) /\ Char(hostname, i + 1) = "."
                    /\ EscapedHostAt(hostname, i + 2) # 0
                    /\ AtDollar(hostname, EscapedHostAt(hostname, i + 2))}
    IN  IF ends = {} THEN None
        ELSE [t |-> "Match", id |-> Str(SubSeq(hostname, 1, CHOOSE i \in ends : TRUE))]

\* an allow-list that lost "/docs"
IsAllowedEndpointShort(path) == path \in (allowed_endpoints \ {"/docs"})

\* request.url.path not in self.allowed_endpoints, negated
IsAllowedEndpoint(path) == path \in allowed_endpoints

\* a store that is forgotten
StoreNothing(state, application_id) == state

\* request.state.id = application_id
StoreApplicationId(state, application_id) == [state EXCEPT !.id = application_id]

\* what the body of dispatch does before it awaits call_next:
\* the exception it raises (or None) and request.state afterwards
DispatchCheck(req) ==
    IF ~IsAllowedEndpoint(req.path)
    THEN IF req.hostname = None
         THEN \* re.Pattern.match(None)
              [raise |-> TypeError("expected string or bytes-like object"),
               state |-> req.state]
         ELSE LET match == PatternMatch(req.hostname.v)
              IN  IF match = None
                  THEN [raise |-> HTTPNotFoundError("ApplicationMissing",
                                                    "Application id not found."),
                        state |-> req.state]
                  ELSE [raise |-> None,
                        state |-> StoreApplicationId(req.state, match.id)]
    ELSE [raise |-> None, state |-> req.state]

\* the responses the stub next stage of the routing harness returns
StubResponses ==
    {StreamingResponse(200, <<"{\"k\": \"v\"}">>, FALSE),
     StreamingResponse(404, <<>>, FALSE)}

\* the requests the routing harness hands to dispatch
RoutingRequests ==
    {[method |-> "GET", path |-> p, hostname |-> h, headers |-> NoHeaders, body |-> "",
      state |-> EmptyState] : p \in Paths, h \in Hostnames}

\* a dispatch that hands back a response of its own
DispatchReturnOther(resp) == [resp EXCEPT !.status_code = 500]

\* return response
DispatchReturn(resp) == resp

\* dispatch(request, call_next) up to its await of call_next(request),
\* for a request drawn from reqs
dispatch(r, reqs) ==
    /\ pc[r] = "idle"
    /\ \E req \in reqs :
         LET check == DispatchCheck(req)
         IN  /\ request' = [request EXCEPT ![r] = [req EXCEPT !.state = check.state]]
             /\ IF check.raise # None
                THEN /\ pc' = [pc EXCEPT ![r] = "raised"]
                     /\ exc' = [exc EXCEPT ![r] = check.raise]
                     /\ UNCHANGED <<nextCalls, stateSeen>>
                ELSE /\ pc' = [pc EXCEPT ![r] = "dispatch_await"]
                     /\ nextCalls' = [nextCalls EXCEPT ![r] = @ + 1]
                     /\ stateSeen' = [stateSeen EXCEPT ![r] = check.state]
                     /\ UNCHANGED exc
    /\ stages' = [stages EXCEPT ![r] = Append(@, "RequestExtractorMiddleware")]
    /\ UNCHANGED <<response, produced, uuids, loggers, log>>
    /\ UNCHANGED <<callerPayload, calls, async_wrapper>>

\* the next stage returned one of resps:
\* response = await call_next(request); return response
dispatch_resume(r, resps) ==
    /\ pc[r] = "dispatch_await"
    /\ \E resp \in resps :
         /\ produced' = [produced EXCEPT ![r] = resp]
         /\ response' = [response EXCEPT ![r] = DispatchReturn(resp)]
    /\ pc' = [pc EXCEPT ![r] = "done"]
    /\ UNCHANGED <<request, exc, nextCalls, stateSeen, stages, uuids, loggers, log>>
    /\ UNCHANGED <<callerPayload, calls, async_wrapper>>

----------------------------------------------------------------------------
(* Payloads: byte strings and the values json.loads makes of them *)

PyInt(n) == [t |-> "int", v |-> n]
List(elements) == [t |-> "list", v |-> elements]
\* a dict: its items <<key, value>> in insertion order
Dict(items) == [t |-> "dict", v |-> items]
BytesOf(literal) == [t |-> "bytes", v |-> literal]

\* the byte strings of the model: request bodies and response body chunks
Bytes ==
    {"",                            \* no bytes
     "{\"k\": \"v\"}",              \* a mapping
     "{\"password\": \"s\"}",       \* a mapping with a key of the mask set
     "[\"password\"]",              \* a list of strings
     "0",                           \* a number
     "plain",                       \* text that is not JSON
     "\\xff"}                       \* a byte that is not UTF-8

\* json.dumps as JSONResponse.render calls it
RECURSIVE JsonDumps(_), JsonDumpsItems(_, _)
JsonDumps(value) ==
    IF value = None THEN "null"
    ELSE CASE value.t = "str" -> "\"" \o value.v \o "\""
           [] value.t = "int" -> ToString(value.v)
           [] value.t = "list" -> "[" \o JsonDumpsItems(value.v, FALSE) \o "]"
           [] value.t = "dict" -> "{" \o JsonDumpsItems(value.v, TRUE) \o "}"

JsonDumpsItems(items, keyed) ==
    IF items = <<>> THEN ""
    ELSE (IF keyed THEN "\"" \o items[1][1] \o "\":" \o JsonDumps(items[1][2])
          ELSE JsonDumps(items[1]))
         \o (IF Len(items) > 1 THEN "," ELSE "")
         \o JsonDumpsItems(Tail(items), keyed)

\* a Python object that is none of str, int, list, dict or None, such as an
\* exception instance
PyObject(class) == [t |-> "object", v |-> class]

\* json.dumps(value) returns: no object of another class is in the value
RECURSIVE IsJsonSerializable(_)
IsJsonSerializable(value) ==
    IF value = None THEN TRUE
    ELSE CASE value.t = "object" -> FALSE
           [] value.t = "list" ->
                \A i \in 1..Len(value.v) : IsJsonSerializable(value.v[i])
           [] value.t = "dict" ->
                \A i \in 1..Len(value.v) : IsJsonSerializable(value.v[i][2])
           [] OTHER -> TRUE

\* a source as the API takes it (NewSourceDto) and as it returns it (SourceDto)
NewSource ==
    Dict(<< <<"name", Str("cam")>>, <<"address", Str("10.0.0.2")>>,
            <<"port", PyInt(554)>>, <<"username", Str("a@b.c")>>,
            <<"password", Str("Secr3t!x")>>, <<"protocol", Str("rtsp")>> >>)
\* a source whose password validate_password rejects: no uppercase letter
WeakSource ==
    Dict(<< <<"name", Str("cam")>>, <<"address", Str("10.0.0.2")>>,
            <<"port", PyInt(554)>>, <<"username", Str("a@b.c")>>,
            <<"password", Str("secr3t!x")>>, <<"protocol", Str("rtsp")>> >>)
StoredSource == Dict(<< <<"id", Str("source-1")>> >> \o NewSource.v)

\* the envelope of request_validation_error_handler; detail stands for
\* exception.errors(), a list of one mapping per error
ValidationEnvelope(method, path) ==
    Dict(<< <<"error_code", Str("RequestValidationError")>>,
            <<"message", Str("There are errors in the request.")>>,
            <<"detail", List(<<Dict(<< <<"type", Str("missing")>> >>)>>)>>,
            <<"target", Str(method \o "|" \o path)>> >>)

\* the values the application is sent or renders as JSON bodies
RenderedValues ==
    {NewSource, WeakSource, StoredSource, List(<<>>), List(<<StoredSource>>),
     ValidationEnvelope("POST", "/v1/sources")}

\* bytes.decode() succeeds
IsUtf8(literal) == literal # "\\xff"

\* json.loads accepts the text
IsJson(literal) ==
    \/ literal \in {"{\"k\": \"v\"}", "{\"password\": \"s\"}", "[\"password\"]", "0"}
    \/ \E value \in RenderedValues : JsonDumps(value) = literal

\* json.loads(text) for a text it accepts: a literal of Bytes, or a text
\* json.dumps rendered
JsonValue(literal) ==
    CASE literal = "{\"k\": \"v\"}" -> Dict(<< <<"k", Str("v")>> >>)
      [] literal = "{\"password\": \"s\"}" -> Dict(<< <<"password", Str("s")>> >>)
      [] literal = "[\"password\"]" -> List(<<Str("password")>>)
      [] literal = "0" -> PyInt(0)
      [] OTHER -> CHOOSE value \in RenderedValues : JsonDumps(value) = literal

\* dict.get
DictGet(dict, key) ==
    IF \E i \in 1..Len(dict.v) : dict.v[i][1] = key
    THEN dict.v[CHOOSE i \in 1..Len(dict.v) : dict.v[i][1] = key][2]
    ELSE None

\* str(request.url), request.url._url
Url(req) ==
    IF req.hostname = None THEN req.path ELSE "http://" \o req.hostname.v \o req.path

----------------------------------------------------------------------------
(* Logger and JSONFormatter *)

\* service_name of handler.py, also the name the exception handlers log under
service_name == "home-infrastructure"

\* self.trim_properties, self.mask_properties
trim_properties == {"file_content", "text", "url"}
mask_properties == {"password", "access_token", "refresh_token", "id_token"}

\* the length above which a trim property is cut, and that it is cut to
TrimLength == 100

\* Logger.__init__: logging.getLogger(name) and logging.config.dictConfig with
\* disable_existing_loggers: the named logger gets the one console handler
\* and is enabled, every other existing logger is disabled
LoggerInit(registry, name) ==
    [n \in LoggerNames |->
        IF n = name THEN [exists |-> TRUE, disabled |-> FALSE, handlers |-> 1]
        ELSE IF registry[n].exists THEN [registry[n] EXCEPT !.disabled = TRUE]
        ELSE registry[n]]

\* a loop body that marks a long value with '...' without cutting it
FormatItemMarkOnly(key, value) ==
    LET trimmed ==
            IF /\ key \in trim_properties
               /\ value.t = "str"
               /\ Len(value.v) > TrimLength
            THEN Str(value.v \o "...")
            ELSE value
    IN  IF key \in mask_properties THEN Str("[masked]") ELSE trimmed

\* a loop body that also cuts a value of exactly the trim length
FormatItemFromLength(key, value) ==
    LET trimmed ==
            IF /\ key \in trim_properties
               /\ value.t = "str"
               /\ Len(value.v) >= TrimLength
            THEN Str(SubSeq(value.v, 1, TrimLength) \o "...")
            ELSE value
    IN  IF key \in mask_properties THEN Str("[masked]") ELSE trimmed

\* one pass of the loop of _format_payload over a key of a dict
FormatItem(key, value) ==
    LET trimmed ==
            IF /\ key \in trim_properties
               /\ value.t = "str"
               /\ Len(value.v) > TrimLength
            THEN Str(SubSeq(value.v, 1, TrimLength) \o "...")
            ELSE value
    IN  IF key \in mask_properties THEN Str("[masked]") ELSE trimmed

\* a sanitizer that masks nothing
FormatPayloadNoMask(payload) == [raise |-> None, value |-> payload]

\* Logger._format_payload(payload): what it raises (or None) and what it
\* returns.  A dict is changed in place and returned.  The loop iterates
\* whatever it is given: the items of a list (payload[key] with a str key
\* is a TypeError), the characters of a str (never a property name), and an
\* int is not iterable.
format_payload(payload) ==
    IF payload = None THEN [raise |-> None, value |-> None]
    ELSE CASE payload.t = "dict" ->
                [raise |-> None,
                 value |-> Dict([i \in 1..Len(payload.v) |->
                                  <<payload.v[i][1],
                                    FormatItem(payload.v[i][1], payload.v[i][2])>>])]
           [] payload.t = "list" ->
                IF \E i \in 1..Len(payload.v) :
                      /\ payload.v[i].t = "str"
                      /\ payload.v[i].v \in trim_properties \cup mask_properties
                THEN [raise |-> TypeError("list indices must be integers or slices, not str"),
                      value |-> None]
                ELSE [raise |-> None, value |-> payload]
           [] payload.t = "str" -> [raise |-> None, value |-> payload]
           [] OTHER ->
                [raise |-> TypeError("'" \o payload.t \o "' object is not iterable"),
                 value |-> None]

\* Logger._populate_detail(payload) for the Logger of request req
populate_detail(req, payload) ==
    LET formatted == format_payload(payload)
    IN  [raise |-> formatted.raise,
         detail |-> Dict(<< <<"service_name", Str(service_name)>>,
                            <<"target", Str(req.method \o " " \o Url(req))>>,
                            <<"payload", formatted.value>>,
                            <<"x-forwarded-for", req.headers["x-forwarded-for"]>>,
                            <<"request_id", req.headers["request_id"]>> >>)]

\* JSONFormatter._extract_value: dicts lose their None values, at every depth
RECURSIVE extract_value(_)
extract_value(value) ==
    IF value.t = "dict"
    THEN LET kept == SelectSeq(value.v, LAMBDA item : item[2] # None)
         IN  Dict([i \in 1..Len(kept) |-> <<kept[i][1], extract_value(kept[i][2])>>])
    ELSE value

\* JSONFormatter.format: the line written for a LogRecord, without its
\* timestamp.  levelname and req (the request whose coroutine logged) are
\* attributes of the LogRecord, not fields of the line.
format(levelname, message, detail, r) ==
    [levelname |-> levelname, message |-> message, detail |-> extract_value(detail),
     req |-> r]

\* logging.Logger.info / .error on the logger named name (self._logger of
\* a Logger constructed with that service_name): a disabled logger writes
\* nothing, an enabled one a line per handler
EmitOn(registry, name, levelname, message, detail, r) ==
    IF registry[name].disabled THEN <<>>
    ELSE [i \in 1..registry[name].handlers |-> format(levelname, message, detail, r)]

\* logging.Logger.info / .error on the logger named service_name: the lines
\* its handlers write
Emit(registry, levelname, message, detail, r) ==
    EmitOn(registry, service_name, levelname, message, detail, r)

\* a Logger.info that forgets the excluded path
info_everywhere(registry, req, payload, message, r) ==
    LET populated == populate_detail(req, payload)
    IN  IF populated.raise # None THEN [raise |-> populated.raise, lines |-> <<>>]
        ELSE [raise |-> None,
              lines |-> Emit(registry, "INFO", message, populated.detail, r)]

\* Logger.info(payload, message): what it raises and the lines it writes
info(registry, req, payload, message, r) ==
    IF req.path # "/openapi.json"
    THEN LET populated == populate_detail(req, payload)
         IN  IF populated.raise # None THEN [raise |-> populated.raise, lines |-> <<>>]
             ELSE [raise |-> None,
                   lines |-> Emit(registry, "INFO", message, populated.detail, r)]
    ELSE [raise |-> None, lines |-> <<>>]

\* Logger.error(payload, message)
error(registry, req, payload, message, r) ==
    LET populated == populate_detail(req, payload)
    IN  IF populated.raise # None THEN [raise |-> populated.raise, lines |-> <<>>]
        ELSE [raise |-> None,
              lines |-> Emit(registry, "ERROR", message, populated.detail, r)]

\* Logger.exception(payload, message): logging's exception() writes at
\* level ERROR
logger_exception(registry, req, payload, message, r) ==
    LET populated == populate_detail(req, payload)
    IN  IF populated.raise # None THEN [raise |-> populated.raise, lines |-> <<>>]
        ELSE [raise |-> None,
              lines |-> Emit(registry, "ERROR", message, populated.detail, r)]

\* the object that was passed to _format_payload, as its caller finds it after
\* the call: the loop assigns to payload[key], so a dict is the dict returned
format_payload_leaves(payload) ==
    IF payload # None /\ payload.t = "dict" THEN format_payload(payload).value
    ELSE payload

----------------------------------------------------------------------------
(* RequestLogger *)

\* str.split(";")[0]
BeforeSemicolon(s) ==
    IF \E i \in 1..Len(s) : Char(s, i) = ";"
    THEN SubSeq(s, 1, (CHOOSE i \in 1..Len(s) :
                          /\ Char(s, i) = ";"
                          /\ \A j \in 1..(i - 1) : Char(s, j) # ";") - 1)
    ELSE s

\* content_type of _get_request_body
ContentType(req) ==
    IF req.headers["content-type"] = None THEN ""
    ELSE BeforeSemicolon(req.headers["content-type"].v)

\* the test of _get_request_body: the body is awaited and returned
ReadsBody(req) == ContentType(req) # "" /\ ContentType(req) # "multipart/form-data"

\* RequestLogger._serialize_data(data): json.loads(data) if data else None,
\* None for a JSONDecodeError; json.loads of bytes decodes them first
serialize_data(data) ==
    IF data = None \/ data.v = "" THEN [raise |-> None, value |-> None]
    ELSE IF data.t = "bytes" /\ ~IsUtf8(data.v)
         THEN [raise |-> UnicodeDecodeError, value |-> None]
         ELSE IF ~IsJson(data.v) THEN [raise |-> None, value |-> None]
              ELSE [raise |-> None, value |-> JsonValue(data.v)]

\* JSONResponse(content, status_code)
JSONResponse(content, status_code) ==
    [t |-> "Response", status_code |-> status_code, headers |-> JsonHeaders,
     body_iterator |-> None, body |-> JsonDumps(content)]

\* iterator.__anext__ until it stops: the items read
RECURSIVE ReadAll(_)
ReadAll(iterator) ==
    IF iterator.next > Len(iterator.items) THEN <<>>
    ELSE <<iterator.items[iterator.next]>> \o ReadAll([iterator EXCEPT !.next = @ + 1])

\* the iterator once it was read to its end
Exhausted(iterator) == [iterator EXCEPT !.next = Len(iterator.items) + 1]

\* StopAsyncIteration
StopAsyncIteration ==
    [type |-> "StopAsyncIteration", error_code |-> "", message |-> ""]

\* an __anext__ that starts over once it has signalled the end
anext_restarting(iterator) ==
    IF iterator.next > Len(iterator.items)
    THEN [raise |-> StopAsyncIteration, value |-> None,
          iterator |-> [iterator EXCEPT !.next = 1]]
    ELSE [raise |-> None, value |-> iterator.items[iterator.next],
          iterator |-> [iterator EXCEPT !.next = @ + 1]]

\* AsyncIteratorWrapper.__anext__: next(self._iterator) of the list
\* iterator, StopAsyncIteration for its StopIteration; an exhausted list
\* iterator stays exhausted
anext(iterator) ==
    IF iterator.next > Len(iterator.items)
    THEN [raise |-> StopAsyncIteration, value |-> None, iterator |-> iterator]
    ELSE [raise |-> None, value |-> iterator.items[iterator.next],
          iterator |-> [iterator EXCEPT !.next = @ + 1]]

\* the body chunks the transport reads from a response
BodyChunks(resp) ==
    IF resp.body_iterator = None THEN <<resp.body>> ELSE ReadAll(resp.body_iterator)

\* a response left with the stream that was just drained
KeepDrainedIterator(resp, response_body) ==
    [resp EXCEPT !.body_iterator = Exhausted(@)]

\* response.__setattr__("body_iterator", AsyncIteratorWrapper(response_body))
SetBodyIterator(resp, response_body) ==
    [resp EXCEPT !.body_iterator = Iterator(response_body, FALSE)]

\* a header taken from a new uuid4() instead of request.state
SetOtherRequestId(resp, req) ==
    [resp EXCEPT !.headers = ("request_id" :> "uuid-0") @@ resp.headers]

\* a header taken from an attribute of the middleware object, where the id
\* generated last was kept
SetSharedRequestId(resp, req) ==
    [resp EXCEPT !.headers = ("request_id" :> ("uuid-" \o ToString(uuids))) @@ resp.headers]

\* a response that is given the header and loses the ones it had
SetOnlyRequestId(resp, req) ==
    [resp EXCEPT !.headers = "request_id" :> req.state.request_id.v]

\* response.headers["request_id"] = request.state.request_id
SetRequestId(resp, req) ==
    [resp EXCEPT !.headers = ("request_id" :> req.state.request_id.v) @@ resp.headers]

\* the replacement body of the except branch of _log_response
ErrorBody(req, exception) ==
    Dict(<< <<"errorCode", Str("InternalServerError")>>,
            <<"message", Str("Something went wrong!")>>,
            <<"detail", Str(exception.message)>>,
            <<"target", Str(req.method \o "|" \o Url(req))>> >>)

\* _log_response without its replacement of a failed response
LogResponseTryUnguarded(req, resp) ==
    LET response_body == resp.body_iterator.items
    IN  [raise |-> IF resp.body_iterator.raises THEN RuntimeError("body stream failed")
                   ELSE IF response_body # <<>> /\ ~IsUtf8(response_body[1])
                        THEN UnicodeDecodeError ELSE None,
         failed |-> FALSE,
         response |-> SetBodyIterator(resp, response_body),
         payload |-> IF response_body # <<>> /\ IsUtf8(response_body[1])
                     THEN serialize_data(Str(response_body[1])).value ELSE None]

\* the try / except of _log_response: the response it goes on with and the
\* payload it logs.  failed: the except branch was taken.
LogResponseTry(req, resp) ==
    LET response_body == resp.body_iterator.items
        exception ==
            IF resp.body_iterator.raises THEN RuntimeError("body stream failed")
            ELSE IF response_body # <<>> /\ ~IsUtf8(response_body[1])
                 THEN UnicodeDecodeError
                 ELSE IF response_body # <<>>
                      THEN serialize_data(Str(response_body[1])).raise
                      ELSE None
    IN  IF exception # None
        THEN [raise |-> None, failed |-> TRUE,
              response |-> JSONResponse(ErrorBody(req, exception), 500),
              payload |-> ErrorBody(req, exception)]
        ELSE [raise |-> None, failed |-> FALSE,
              response |-> SetBodyIterator(resp, response_body),
              payload |-> IF response_body # <<>>
                          THEN serialize_data(Str(response_body[1])).value
                          ELSE None]

\* an exception leaves the coroutine of request r
Raise(r, exception) ==
    /\ pc' = [pc EXCEPT ![r] = "raised"]
    /\ exc' = [exc EXCEPT ![r] = exception]

\* _log_request from the request body to the await of call_next(request)
LogReceived(r, req, registry, body) ==
    LET serialized == serialize_data(body)
        logged == info(registry, req, serialized.value, "client_received_request", r)
    IN  IF serialized.raise # None
        THEN Raise(r, serialized.raise) /\ UNCHANGED <<log, nextCalls, stateSeen>>
        ELSE IF logged.raise # None
             THEN Raise(r, logged.raise) /\ UNCHANGED <<log, nextCalls, stateSeen>>
             ELSE /\ log' = log \o logged.lines
                  /\ nextCalls' = [nextCalls EXCEPT ![r] = @ + 1]
                  /\ stateSeen' = [stateSeen EXCEPT ![r] = req.state]
                  /\ pc' = [pc EXCEPT ![r] = "await_next"]
                  /\ UNCHANGED exc

\* log_request(request, call_next) -> _log_request, for a request drawn
\* from reqs, up to its first await: request.body() when the body is read,
\* call_next(request) otherwise
log_request(r, reqs) ==
    /\ pc[r] = "idle"
    /\ \E req \in reqs :
         LET tagged == [req EXCEPT !.state.request_id = Str("uuid-" \o ToString(uuids + 1))]
             registry == LoggerInit(loggers, service_name)
         IN  /\ uuids' = uuids + 1
             /\ request' = [request EXCEPT ![r] = tagged]
             /\ loggers' = registry
             /\ IF ReadsBody(tagged)
                THEN /\ pc' = [pc EXCEPT ![r] = "await_body"]
                     /\ UNCHANGED <<exc, log, nextCalls, stateSeen>>
                ELSE LogReceived(r, tagged, registry, None)
    /\ stages' = [stages EXCEPT ![r] = Append(@, "RequestLogger")]
    /\ UNCHANGED <<response, produced>>
    /\ UNCHANGED <<callerPayload, calls, async_wrapper>>

\* request.body() returned
log_request_body(r) ==
    /\ pc[r] = "await_body"
    /\ LogReceived(r, request[r], loggers, BytesOf(request[r].body))
    /\ UNCHANGED <<request, response, produced, stages, uuids, loggers>>
    /\ UNCHANGED <<callerPayload, calls, async_wrapper>>

\* call_next(request) returned one of resps; _log_response starts to drain it
call_next_returns(r, resps) ==
    /\ pc[r] = "await_next"
    /\ \E resp \in resps :
         /\ produced' = [produced EXCEPT ![r] = resp]
         /\ response' = [response EXCEPT ![r] = resp]
    /\ pc' = [pc EXCEPT ![r] = "await_drain"]
    /\ UNCHANGED <<request, exc, nextCalls, stateSeen, stages, uuids, loggers, log>>
    /\ UNCHANGED <<callerPayload, calls, async_wrapper>>

\* call_next(request) raised one of exceptions: nothing in _log_request catches it
call_next_raises(r, exceptions) ==
    /\ pc[r] = "await_next"
    /\ \E exception \in exceptions :
         /\ produced' = [produced EXCEPT ![r] = [t |-> "raised", exception |-> exception]]
         /\ Raise(r, exception)
    /\ UNCHANGED <<request, response, nextCalls, stateSeen, stages, uuids, loggers, log>>
    /\ UNCHANGED <<callerPayload, calls, async_wrapper>>

\* _log_response from the end of the drain, and the rest of _log_request
log_response(r) ==
    /\ pc[r] = "await_drain"
    /\ LET tried == LogResponseTry(request[r], response[r])
           logged == info(loggers, request[r], tried.payload, "client_sent_response", r)
       IN  IF tried.raise # None
           THEN Raise(r, tried.raise) /\ UNCHANGED <<response, log>>
           ELSE IF logged.raise # None
                THEN Raise(r, logged.raise) /\ UNCHANGED <<response, log>>
                ELSE /\ log' = log \o logged.lines
                     /\ response' = [response EXCEPT ![r] = SetRequestId(tried.response, request[r])]
                     /\ pc' = [pc EXCEPT ![r] = "done"]
                     /\ UNCHANGED exc
    /\ UNCHANGED <<request, nextCalls, stateSeen, produced, stages, uuids, loggers>>
    /\ UNCHANGED <<callerPayload, calls, async_wrapper>>

\* the requests the middleware is given
ObservedRequests ==
    {[method |-> "POST", path |-> p, hostname |-> Str("t.c.c"),
      headers |-> [h \in HeaderNames |->
                     CASE h = "content-type" -> ct
                       [] h = "x-forwarded-for" -> sent[1]
                       [] h = "request_id" -> sent[2]],
      body |-> b, state |-> EmptyState] :
        p \in {"/v1/sources", "/openapi.json"},
        ct \in {None, Str("application/json"), Str("multipart/form-data; boundary=x")},
        sent \in {<<None, None>>, <<Str("10.0.0.1"), None>>, <<None, Str("client-id")>>},
        b \in Bytes}

\* the tuples of at most n elements of S
RECURSIVE TuplesUpTo(_, _)
TuplesUpTo(S, n) ==
    IF n = 0 THEN {<<>>}
    ELSE LET shorter == TuplesUpTo(S, n - 1)
         IN  shorter \cup {Append(s, c) : s \in {x \in shorter : Len(x) = n - 1}, c \in S}

\* the responses a next stage returns: any status, any chunks, a stream that
\* ends or fails
NextResponses ==
    {[StreamingResponse(answered[1], chunks, raises) EXCEPT !.headers = answered[2]] :
        answered \in {<<200, JsonHeaders>>, <<404, ("x-extra" :> "1") @@ JsonHeaders>>},
        chunks \in TuplesUpTo(Bytes, MaxChunks),
        raises \in BOOLEAN}

\* the requests of two clients served at the same time: with a body the
\* middleware reads, and without
ConcurrentRequests ==
    {[method |-> "POST", path |-> p, hostname |-> Str("t.c.c"),
      headers |-> [h \in HeaderNames |-> IF h = "content-type" THEN ct ELSE None],
      body |-> "{\"k\": \"v\"}", state |-> EmptyState] :
        p \in {"/v1/sources", "/v1/sources/1"},
        ct \in {None, Str("application/json")}}

\* the responses their next stages return
ConcurrentResponses ==
    {StreamingResponse(200, chunks, raises) :
        chunks \in TuplesUpTo({"{\"k\": \"v\"}", "plain"}, MaxChunks),
        raises \in BOOLEAN}

\* the exceptions a next stage raises
NextExceptions == {RuntimeError("handler failed")}

----------------------------------------------------------------------------
(* The application handler.py assembles: RequestLogger.log_request is the
   only middleware of this repository it installs (CORSMiddleware, outside
   it, passes these requests through), around the routes of HealthController
   and SourceController and the exception handlers *)

\* errors of an endpoint that no exception handler below call_next classifies
AttributeError(message) ==
    [type |-> "AttributeError", error_code |-> "", message |-> message]

OperationalError ==
    [type |-> "OperationalError", error_code |-> "", message |-> "database is unavailable"]

\* what the database session does for the repository: the rows it holds,
\* or a failure
Databases ==
    {[rows |-> <<>>, fails |-> FALSE],
     [rows |-> <<StoredSource>>, fails |-> FALSE],
     [rows |-> <<>>, fails |-> TRUE]}

\* the endpoint that add_api_route registered for the method and path
RouteOf(req) ==
    CASE req.path = "/health" /\ req.method = "GET" -> "HealthController.get_health"
      [] req.path = "/v1/sources" /\ req.method = "GET" -> "SourceController.get_sources"
      [] req.path = "/v1/sources" /\ req.method = "POST" -> "SourceController.create_source"
      [] OTHER -> ""

\* the request body is a NewSourceDto
IsNewSourceDto(req) == req.body = JsonDumps(NewSource)

\* HealthController.get_health: SourceService has no get_source
get_health ==
    [raise |-> AttributeError("'SourceService' object has no attribute 'get_source'"),
     status_code |-> 200, content |-> None]

\* SourceController.get_sources -> SourceService.get_sources
get_sources(database) ==
    IF database.fails THEN [raise |-> OperationalError, status_code |-> 200, content |-> None]
    ELSE [raise |-> None, status_code |-> 200, content |-> List(database.rows)]

\* SourceController.create_source -> SourceService.create_source
create_source(database) ==
    IF database.fails THEN [raise |-> OperationalError, status_code |-> 201, content |-> None]
    ELSE [raise |-> None, status_code |-> 201, content |-> StoredSource]

\* RequestValidationError(errors): errors() returns the list of one mapping
\* per failure
RequestValidationError(errors) ==
    [type |-> "RequestValidationError", errors |-> errors]

\* the failures of a body with a field missing
FieldErrors == List(<<Dict(<< <<"type", Str("missing")>> >>)>>)

\* the failure of a password that validate_password rejected: the mapping
\* carries the ValueError the validator raised, under ctx.error
ValidatorErrors ==
    List(<<Dict(<< <<"type", Str("value_error")>>,
                   <<"ctx", Dict(<< <<"error", PyObject("ValueError")>> >>)>> >>)>>)

\* validation of the body of create_source against NewSourceDto: None, or
\* the RequestValidationError raised
Validate(req) ==
    IF IsNewSourceDto(req) THEN None
    ELSE IF req.body = JsonDumps(WeakSource)
         THEN RequestValidationError(ValidatorErrors)
         ELSE RequestValidationError(FieldErrors)

\* request_validation_error_handler(request, exception): the envelope is
\* logged, then JSONResponse renders it with json.dumps, which raises for a
\* value it cannot serialize
request_validation_error_handler(registry, req, exception, r) ==
    LET content == Dict(<< <<"error_code", Str("RequestValidationError")>>,
                           <<"message", Str("There are errors in the request.")>>,
                           <<"detail", exception.errors>>,
                           <<"target", Str(req.method \o "|" \o req.path)>> >>)
        configured == LoggerInit(registry, "home-infrastructure")
        logged == format_payload_leaves(content)
    IN  [loggers |-> configured,
         lines |-> error(configured, req, content, "event", r).lines,
         raise |-> IF IsJsonSerializable(logged) THEN None
                   ELSE TypeError("Object of type ValueError is not JSON serializable"),
         response |-> IF IsJsonSerializable(logged) THEN JSONResponse(logged, 400)
                      ELSE None]

\* python_exception_handler(request, exception)
python_exception_handler(registry, req, exception, r) ==
    LET content == Dict(<< <<"error_code", Str("InternalServerError")>>,
                           <<"message", Str("Something went wrong!")>>,
                           <<"detail", Str(exception.message)>>,
                           <<"target", Str(req.method \o "|" \o req.path)>> >>)
        configured == LoggerInit(registry, "home-infrastructure")
    IN  [loggers |-> configured,
         lines |-> error(configured, req, content, "event", r).lines,
         response |-> JSONResponse(content, 500)]

\* a response of the application as call_next hands it to the middleware:
\* its body is streamed as one chunk
Streamed(resp) == StreamingResponse(resp.status_code, <<resp.body>>, FALSE)

\* call_next(request) in the application: the route is matched, the body of
\* a POST is validated, the endpoint runs against one of databases; a
\* validation error is translated here, an unclassified error (of the
\* endpoint or of the handler that translates) is raised through call_next
route(r, databases) ==
    /\ pc[r] = "await_next"
    /\ \E database \in databases :
         LET req == request[r]
             endpoint == RouteOf(req)
             validated == endpoint # "SourceController.create_source" \/ Validate(req) = None
             returned ==
                 CASE endpoint = "HealthController.get_health" -> get_health
                   [] endpoint = "SourceController.get_sources" -> get_sources(database)
                   [] endpoint = "SourceController.create_source" -> create_source(database)
             handled == request_validation_error_handler(loggers, req, Validate(req), r)
         IN  /\ stages' = [stages EXCEPT ![r] =
                             Append(@, IF validated THEN endpoint
                                       ELSE "request_validation_error_handler")]
             /\ loggers' = IF validated THEN loggers ELSE handled.loggers
             /\ log' = IF validated THEN log ELSE log \o handled.lines
             /\ IF (validated /\ returned.raise # None) \/ (~validated /\ handled.raise # None)
                THEN LET raised == IF validated THEN returned.raise ELSE handled.raise
                     IN  /\ produced' = [produced EXCEPT ![r] =
                                            [t |-> "raised", exception |-> raised]]
                         /\ Raise(r, raised)
                         /\ UNCHANGED response
                ELSE LET resp == IF validated
                                 THEN JSONResponse(returned.content, returned.status_code)
                                 ELSE handled.response
                     IN  /\ produced' = [produced EXCEPT ![r] = Streamed(resp)]
                         /\ response' = [response EXCEPT ![r] = Streamed(resp)]
                         /\ pc' = [pc EXCEPT ![r] = "await_drain"]
                         /\ UNCHANGED exc
    /\ UNCHANGED <<request, nextCalls, stateSeen, uuids>>
    /\ UNCHANGED <<callerPayload, calls, async_wrapper>>

\* an exception left the middleware: the handler registered for Exception
\* answers outside it
server_error(r) ==
    /\ pc[r] = "raised"
    /\ LET handled == python_exception_handler(loggers, request[r], exc[r], r)
       IN  /\ loggers' = handled.loggers
           /\ log' = log \o handled.lines
           /\ response' = [response EXCEPT ![r] = handled.response]
    /\ stages' = [stages EXCEPT ![r] = Append(@, "python_exception_handler")]
    /\ pc' = [pc EXCEPT ![r] = "failed"]
    /\ UNCHANGED <<request, exc, nextCalls, stateSeen, produced, uuids>>
    /\ UNCHANGED <<callerPayload, calls, async_wrapper>>

\* the requests the application is sent: its routes, on the API host itself,
\* on a tenant's host and without a host
AppRequests ==
    {[method |-> routed[1], path |-> routed[2], hostname |-> hostname,
      headers |-> [h \in HeaderNames |-> IF h = "content-type" THEN ct ELSE None],
      body |-> b, state |-> EmptyState] :
        routed \in {<<"GET", "/health">>, <<"GET", "/v1/sources">>, <<"POST", "/v1/sources">>},
        hostname \in {None, Str(api_host), Str("t." \o api_host)},
        ct \in {None, Str("application/json")},
        b \in {"", "0", JsonDumps(NewSource), JsonDumps(WeakSource)}}

----------------------------------------------------------------------------
(* A Logger used directly: one Logger built for a request, and a caller that
   holds a payload and calls _format_payload, info, error and exception *)

\* the string of n characters c
RECURSIVE Repeat(_, _)
Repeat(c, n) == IF n = 0 THEN "" ELSE c \o Repeat(c, n - 1)

\* the values of the payloads: strings around the trim length, the markers
\* themselves, a number, None, a mapping, and a list holding a mapping
LoggedValues ==
    {Str("v"),
     Str(Repeat("a", TrimLength)),
     Str(Repeat("a", TrimLength + 1)),
     Str(Repeat("a", TrimLength) \o "..."),
     Str("[masked]"),
     PyInt(7),
     None,
     Dict(<< <<"password", Str("s")>>, <<"n", None>> >>),
     List(<< Dict(<< <<"input", None>> >>) >>)}

\* the keys of the payloads: two of the mask list, one of the trim list, one
\* of neither
PayloadKeys == <<"password", "id_token", "text", "k">>

\* the items of the mappings over keys that have at most n items
RECURSIVE PayloadItems(_, _)
PayloadItems(keys, n) ==
    IF keys = <<>> \/ n = 0 THEN {<<>>}
    ELSE PayloadItems(Tail(keys), n)
         \cup {<< <<Head(keys), value>> >> \o rest :
                 value \in LoggedValues, rest \in PayloadItems(Tail(keys), n - 1)}

\* the payloads a caller hands to the Logger: mappings, or None
LoggerPayloads == {Dict(items) : items \in PayloadItems(PayloadKeys, MaxItems)} \cup {None}

\* the requests a Logger is built for
LoggerRequests ==
    {[method |-> "GET", path |-> sent[1], hostname |-> Str("testserver"),
      headers |-> [h \in HeaderNames |->
                     CASE h = "content-type" -> None
                       [] h = "x-forwarded-for" -> sent[2]
                       [] h = "request_id" -> sent[3]],
      body |-> "", state |-> EmptyState] :
        sent \in {<<"/test", Str("123.123.123.123"), Str("abcd-1234")>>,
                  <<"/test", None, None>>,
                  <<"/openapi.json", None, None>>}}

\* the record of one call: the payload as it was passed, what the call
\* raised and returned, the lines it wrote and the payload as it was left
Call(method, argument, raise, returned, lines, left) ==
    [method |-> method, argument |-> argument, raise |-> raise,
     returned |-> returned, lines |-> lines, left |-> left]

\* logger._format_payload(payload)
call_format_payload ==
    /\ Len(calls) < MaxCalls
    /\ LET formatted == format_payload(callerPayload)
           left == format_payload_leaves(callerPayload)
       IN  /\ calls' = Append(calls, Call("_format_payload", callerPayload,
                                          formatted.raise, formatted.value, <<>>, left))
           /\ callerPayload' = left
    /\ UNCHANGED <<pc, request, response, exc, nextCalls, stateSeen, produced, stages,
                   uuids, loggers, log>>
    /\ UNCHANGED async_wrapper

\* logger.info(payload): _populate_detail is not reached for /openapi.json
call_info ==
    /\ Len(calls) < MaxCalls
    /\ LET logged == info(loggers, request["r1"], callerPayload, "event", "r1")
           left == IF request["r1"].path # "/openapi.json"
                   THEN format_payload_leaves(callerPayload) ELSE callerPayload
       IN  /\ calls' = Append(calls, Call("info", callerPayload, logged.raise, None,
                                          logged.lines, left))
           /\ log' = log \o logged.lines
           /\ callerPayload' = left
    /\ UNCHANGED <<pc, request, response, exc, nextCalls, stateSeen, produced, stages,
                   uuids, loggers>>
    /\ UNCHANGED async_wrapper

\* logger.error(payload)
call_error ==
    /\ Len(calls) < MaxCalls
    /\ LET logged == error(loggers, request["r1"], callerPayload, "event", "r1")
           left == format_payload_leaves(callerPayload)
       IN  /\ calls' = Append(calls, Call("error", callerPayload, logged.raise, None,
                                          logged.lines, left))
           /\ log' = log \o logged.lines
           /\ callerPayload' = left
    /\ UNCHANGED <<pc, request, response, exc, nextCalls, stateSeen, produced, stages,
                   uuids, loggers>>
    /\ UNCHANGED async_wrapper

\* logger.exception(payload)
call_exception ==
    /\ Len(calls) < MaxCalls
    /\ LET logged == logger_exception(loggers, request["r1"], callerPayload, "event", "r1")
           left == format_payload_leaves(callerPayload)
       IN  /\ calls' = Append(calls, Call("exception", callerPayload, logged.raise, None,
                                          logged.lines, left))
           /\ log' = log \o logged.lines
           /\ callerPayload' = left
    /\ UNCHANGED <<pc, request, response, exc, nextCalls, stateSeen, produced, stages,
                   uuids, loggers>>
    /\ UNCHANGED async_wrapper

----------------------------------------------------------------------------
(* Several Loggers in one process: each construction reconfigures logging,
   and callers go on using the instances they hold *)

\* Logger(service_name=name) was constructed
Constructed(name) ==
    \E i \in 1..Len(calls) : calls[i].method = "Logger" /\ calls[i].argument = Str(name)

\* the constructions made so far
Constructions == {i \in 1..Len(calls) : calls[i].method = "Logger"}

\* the lines a call of method on the Logger named name writes for a mapping
LinesOn(registry, name, method, req, r) ==
    LET content == Dict(<< <<"k", Str("v")>> >>)
        populated == populate_detail(req, content)
        \* self.service_name of this instance
        detail == [populated.detail EXCEPT !.v[1] = <<"service_name", Str(name)>>]
    IN  IF method = "info" /\ req.path = "/openapi.json" THEN <<>>
        ELSE EmitOn(registry, name, IF method = "info" THEN "INFO" ELSE "ERROR",
                    "event", detail, r)

\* Logger(service_name=name, request=...) for a name of names
construct(names) ==
    /\ Cardinality(Constructions) < MaxConstructions
    /\ \E name \in names :
         /\ loggers' = LoggerInit(loggers, name)
         /\ calls' = Append(calls, Call("Logger", Str(name), None, None, <<>>, None))
    /\ UNCHANGED <<pc, request, response, exc, nextCalls, stateSeen, produced, stages,
                   uuids, log, callerPayload>>
    /\ UNCHANGED async_wrapper

\* info, error or exception is called on an instance constructed earlier,
\* for a request of reqs
call_instance(methods, reqs) ==
    /\ Len(calls) - Cardinality(Constructions) < MaxCalls
    /\ \E name \in {n \in LoggerNames : Constructed(n)}, method \in methods, req \in reqs :
         LET lines == LinesOn(loggers, name, method, req, "r1")
         IN  /\ request' = [request EXCEPT !["r1"] = req]
             /\ calls' = Append(calls, Call(method, Str(name), None, None, lines, None))
             /\ log' = log \o lines
    /\ UNCHANGED <<pc, response, exc, nextCalls, stateSeen, produced, stages,
                   uuids, loggers, callerPayload>>
    /\ UNCHANGED async_wrapper

----------------------------------------------------------------------------
(* An AsyncIteratorWrapper iterated by hand, as its tests do *)

\* AsyncIteratorWrapper(obj) for a list of sequences
wrap(sequences) ==
    /\ async_wrapper = None
    /\ \E items \in sequences : async_wrapper' = Iterator(items, FALSE)
    /\ UNCHANGED <<pc, request, response, exc, nextCalls, stateSeen, produced, stages,
                   uuids, loggers, log, callerPayload, calls>>

\* await async_wrapper.__anext__(), also after it signalled the end
call_anext ==
    /\ async_wrapper # None
    /\ Len(calls) < Len(async_wrapper.items) + MaxCalls
    /\ LET stepped == anext(async_wrapper)
       IN  /\ calls' = Append(calls, Call("__anext__", None, stepped.raise,
                                          stepped.value, <<>>, None))
           /\ async_wrapper' = stepped.iterator
    /\ UNCHANGED <<pc, request, response, exc, nextCalls, stateSeen, produced, stages,
                   uuids, loggers, log, callerPayload>>

----------------------------------------------------------------------------
(* The exception handlers called directly, on a request and an error *)

\* a typed application error: HTTPError(http_status, error_code, message, detail)
HTTPError(http_status, error_code, message, detail) ==
    [type |-> "HTTPError", http_status |-> http_status, error_code |-> error_code,
     message |-> message, detail |-> detail]

\* an exception_handler that answers every error with status 500
exception_handler_500(registry, req, exception, r) ==
    LET content == Dict(<< <<"error_code", Str(exception.error_code)>>,
                           <<"message", Str(exception.message)>>,
                           <<"detail", exception.detail>>,
                           <<"target", Str(req.method \o "|" \o req.path)>> >>)
        configured == LoggerInit(registry, "home-infrastructure")
    IN  [loggers |-> configured,
         lines |-> error(configured, req, content, "event", r).lines,
         response |-> JSONResponse(content, 500)]

\* exception_handler(request, exception): the envelope is logged, and so
\* passed through _format_payload, before it is rendered
exception_handler(registry, req, exception, r) ==
    LET content == Dict(<< <<"error_code", Str(exception.error_code)>>,
                           <<"message", Str(exception.message)>>,
                           <<"detail", exception.detail>>,
                           <<"target", Str(req.method \o "|" \o req.path)>> >>)
        configured == LoggerInit(registry, "home-infrastructure")
    IN  [loggers |-> configured,
         lines |-> error(configured, req, content, "event", r).lines,
         response |-> JSONResponse(format_payload_leaves(content), exception.http_status)]

\* a framework HTTP error: HTTPException(status_code, detail)
HTTPException(status_code, detail) ==
    [type |-> "HTTPException", status_code |-> status_code, detail |-> detail]

\* str(value)
PyStr(value) ==
    CASE value = None -> "None"
      [] value.t = "str" -> value.v
      [] value.t = "int" -> ToString(value.v)

\* a default_exception_handler that hands the detail on as it is
default_exception_handler_raw(registry, req, exception, r) ==
    LET content == Dict(<< <<"error_code", Str("GenericExceptionRaised")>>,
                           <<"message", Str("Something went wrong inside a process.")>>,
                           <<"detail", exception.detail>>,
                           <<"target", Str(req.method \o "|" \o req.path)>> >>)
        configured == LoggerInit(registry, "home-infrastructure")
    IN  [loggers |-> configured,
         lines |-> error(configured, req, content, "event", r).lines,
         response |-> JSONResponse(format_payload_leaves(content), exception.status_code)]

\* default_exception_handler(request, exception)
default_exception_handler(registry, req, exception, r) ==
    LET content == Dict(<< <<"error_code", Str("GenericExceptionRaised")>>,
                           <<"message", Str("Something went wrong inside a process.")>>,
                           <<"detail", Str(PyStr(exception.detail))>>,
                           <<"target", Str(req.method \o "|" \o req.path)>> >>)
        configured == LoggerInit(registry, "home-infrastructure")
    IN  [loggers |-> configured,
         lines |-> error(configured, req, content, "event", r).lines,
         response |-> JSONResponse(format_payload_leaves(content), exception.status_code)]

\* the framework errors handed to default_exception_handler: the detail is
\* a string, a number or None
FrameworkErrors ==
    {HTTPException(status_code, detail) :
        status_code \in {404, 500},
        detail \in {Str("Server error"), PyInt(7), None}}

\* the typed errors handed to exception_handler
TypedErrors ==
    {HTTPError(raised[1], raised[2], raised[3], detail) :
        raised \in {<<400, "BadRequest", "Bad request">>,
                    <<404, "SourceNotFound", "The 'source' with id '1' does not exist.">>,
                    <<422, "INVALID_INPUT", "Invalid input">>,
                    <<424, "FailedProviderDependency",
                      "An error occurred while contacting the provider.">>},
        detail \in {None, Str("Invalid parameters"), Str("")}}

\* the requests the handlers are called for
TranslatorRequests ==
    {[method |-> method, path |-> path, hostname |-> Str("testserver"),
      headers |-> [h \in HeaderNames |-> IF h = "x-forwarded-for" THEN xff ELSE None],
      body |-> "", state |-> EmptyState] :
        method \in {"GET", "PUT"},
        path \in {"/test", "/v1/sources/1", "/openapi.json"},
        xff \in {None, Str("10.0.0.1")}}

\* the application calls exception_handler for a request of reqs that
\* failed with a typed error of errors
handle_typed_error(r, reqs, errors) ==
    /\ pc[r] = "idle"
    /\ \E req \in reqs, exception \in errors :
         LET handled == exception_handler(loggers, req, exception, r)
         IN  /\ request' = [request EXCEPT ![r] = req]
             /\ exc' = [exc EXCEPT ![r] = exception]
             /\ loggers' = handled.loggers
             /\ log' = log \o handled.lines
             /\ response' = [response EXCEPT ![r] = handled.response]
    /\ stages' = [stages EXCEPT ![r] = Append(@, "exception_handler")]
    /\ pc' = [pc EXCEPT ![r] = "done"]
    /\ UNCHANGED <<nextCalls, stateSeen, produced, uuids>>
    /\ UNCHANGED <<callerPayload, calls, async_wrapper>>

\* ValueError(message)
ValueError(message) ==
    [type |-> "ValueError", error_code |-> "", message |-> message]

\* the unclassified errors handed to python_exception_handler
UnclassifiedErrors ==
    {ValueError("An unexpected error occurred"), ValueError(""),
     RuntimeError("boom"), OperationalError}

\* the validation errors handed to request_validation_error_handler
ValidationErrors ==
    {RequestValidationError(FieldErrors), RequestValidationError(ValidatorErrors)}

\* the application calls python_exception_handler for a request of reqs that
\* failed with an unclassified error of errors
handle_exception(r, reqs, errors) ==
    /\ pc[r] = "idle"
    /\ \E req \in reqs, exception \in errors :
         LET handled == python_exception_handler(loggers, req, exception, r)
         IN  /\ request' = [request EXCEPT ![r] = req]
             /\ exc' = [exc EXCEPT ![r] = exception]
             /\ loggers' = handled.loggers
             /\ log' = log \o handled.lines
             /\ response' = [response EXCEPT ![r] = handled.response]
    /\ stages' = [stages EXCEPT ![r] = Append(@, "python_exception_handler")]
    /\ pc' = [pc EXCEPT ![r] = "done"]
    /\ UNCHANGED <<nextCalls, stateSeen, produced, uuids>>
    /\ UNCHANGED <<callerPayload, calls, async_wrapper>>

\* the application calls request_validation_error_handler for a request of
\* reqs whose validation failed with an error of errors; the handler returns
\* a response or raises
handle_validation_error(r, reqs, errors) ==
    /\ pc[r] = "idle"
    /\ \E req \in reqs, exception \in errors :
         LET handled == request_validation_error_handler(loggers, req, exception, r)
         IN  /\ request' = [request EXCEPT ![r] = req]
             /\ loggers' = handled.loggers
             /\ log' = log \o handled.lines
             /\ IF handled.raise = None
                THEN /\ exc' = [exc EXCEPT ![r] = exception]
                     /\ response' = [response EXCEPT ![r] = handled.response]
                     /\ pc' = [pc EXCEPT ![r] = "done"]
                ELSE /\ exc' = [exc EXCEPT ![r] = handled.raise]
                     /\ UNCHANGED response
                     /\ pc' = [pc EXCEPT ![r] = "raised"]
    /\ stages' = [stages EXCEPT ![r] = Append(@, "request_validation_error_handler")]
    /\ UNCHANGED <<nextCalls, stateSeen, produced, uuids>>
    /\ UNCHANGED <<callerPayload, calls, async_wrapper>>

\* the application calls default_exception_handler for a request of reqs
\* that failed with a framework error of errors
handle_http_exception(r, reqs, errors) ==
    /\ pc[r] = "idle"
    /\ \E req \in reqs, exception \in errors :
         LET handled == default_exception_handler(loggers, req, exception, r)
         IN  /\ request' = [request EXCEPT ![r] = req]
             /\ exc' = [exc EXCEPT ![r] = exception]
             /\ loggers' = handled.loggers
             /\ log' = log \o handled.lines
             /\ response' = [response EXCEPT ![r] = handled.response]
    /\ stages' = [stages EXCEPT ![r] = Append(@, "default_exception_handler")]
    /\ pc' = [pc EXCEPT ![r] = "done"]
    /\ UNCHANGED <<nextCalls, stateSeen, produced, uuids>>
    /\ UNCHANGED <<callerPayload, calls, async_wrapper>>

----------------------------------------------------------------------------
(* Specifications *)

Init ==
    /\ pc = [r \in Reqs |-> "idle"]
    /\ request = [r \in Reqs |-> None]
    /\ response = [r \in Reqs |-> None]
    /\ exc = [r \in Reqs |-> None]
    /\ nextCalls = [r \in Reqs |-> 0]
    /\ stateSeen = [r \in Reqs |-> None]
    /\ produced = [r \in Reqs |-> None]
    /\ stages = [r \in Reqs |-> <<>>]
    /\ uuids = 0
    /\ loggers = [n \in LoggerNames |-> [exists |-> FALSE, disabled |-> FALSE, handlers |-> 0]]
    /\ log = <<>>
    /\ callerPayload = None
    /\ calls = <<>>
    /\ async_wrapper = None

\* the routing middleware alone, serving one request with a stub next stage
NextRouting ==
    \/ dispatch("r1", RoutingRequests)
    \/ dispatch_resume("r1", StubResponses)

SpecRouting == Init /\ [][NextRouting]_vars

\* the observability middleware alone, serving one request with any next stage
Next ==
    \/ log_request("r1", ObservedRequests)
    \/ log_request_body("r1")
    \/ call_next_returns("r1", NextResponses)
    \/ call_next_raises("r1", NextExceptions)
    \/ log_response("r1")

Spec == Init /\ [][Next]_vars

\* the application of handler.py, serving one request
NextApp ==
    \/ log_request("r1", AppRequests)
    \/ log_request_body("r1")
    \/ route("r1", Databases)
    \/ log_response("r1")
    \/ server_error("r1")

SpecApp == Init /\ [][NextApp]_vars

\* the observability middleware serving two requests at the same time: the
\* coroutines of r1 and r2 interleave at their awaits
NextConcurrent ==
    \/ \E r \in Reqs : log_request(r, ConcurrentRequests)
    \/ \E r \in Reqs : log_request_body(r)
    \/ \E r \in Reqs : call_next_returns(r, ConcurrentResponses)
    \/ \E r \in Reqs : call_next_raises(r, NextExceptions)
    \/ \E r \in Reqs : log_response(r)

SpecConcurrent == Init /\ [][NextConcurrent]_vars

\* Logger(service_name, request) was constructed for one of LoggerRequests,
\* and its caller holds one of LoggerPayloads
InitLogger ==
    /\ pc = [r \in Reqs |-> "idle"]
    /\ request \in {[r \in Reqs |-> IF r = "r1" THEN req ELSE None] : req \in LoggerRequests}
    /\ response = [r \in Reqs |-> None]
    /\ exc = [r \in Reqs |-> None]
    /\ nextCalls = [r \in Reqs |-> 0]
    /\ stateSeen = [r \in Reqs |-> None]
    /\ produced = [r \in Reqs |-> None]
    /\ stages = [r \in Reqs |-> <<>>]
    /\ uuids = 0
    /\ loggers = LoggerInit([n \in LoggerNames |->
                               [exists |-> FALSE, disabled |-> FALSE, handlers |-> 0]],
                            service_name)
    /\ log = <<>>
    /\ callerPayload \in LoggerPayloads
    /\ calls = <<>>
    /\ async_wrapper = None

NextLogger ==
    \/ call_format_payload
    \/ call_info
    \/ call_error
    \/ call_exception

SpecLogger == InitLogger /\ [][NextLogger]_vars

\* Loggers of equal and different names constructed and used in one process
NextInstances ==
    \/ construct(LoggerNames)
    \/ call_instance({"info", "error", "exception"}, LoggerRequests)

SpecInstances == Init /\ [][NextInstances]_vars

\* an AsyncIteratorWrapper over the chunks of a response body, iterated to
\* its end and beyond
NextIterator ==
    \/ wrap(TuplesUpTo(Bytes, MaxChunks))
    \/ call_anext

SpecIterator == Init /\ [][NextIterator]_vars

\* the exception handlers, each called for one request
NextTranslator ==
    \/ handle_typed_error("r1", TranslatorRequests, TypedErrors)
    \/ handle_typed_error("r2", TranslatorRequests, TypedErrors)
    \/ handle_http_exception("r1", TranslatorRequests, FrameworkErrors)
    \/ handle_http_exception("r2", TranslatorRequests, FrameworkErrors)
    \/ handle_exception("r1", TranslatorRequests, UnclassifiedErrors)
    \/ handle_exception("r2", TranslatorRequests, UnclassifiedErrors)
    \/ handle_validation_error("r1", TranslatorRequests, ValidationErrors)
    \/ handle_validation_error("r2", TranslatorRequests, ValidationErrors)

SpecTranslator == Init /\ [][NextTranslator]_vars

----------------------------------------------------------------------------
(* Claims about the routing middleware (SpecRouting) *)

\* the not-found application error dispatch raises
ApplicationMissing == HTTPNotFoundError("ApplicationMissing", "Application id not found.")

\* hostname is '<tenant>.<api host>' for a non-empty tenant without a dot
IsTenantHost(hostname) ==
    /\ hostname # None
    /\ \E tenant \in StringsUpTo(HostChars \ {"."}, Len(hostname.v)) :
           /\ tenant # ""
           /\ hostname.v = tenant \o "." \o api_host

\* the tenant segment of a host name that is '<tenant>.<api host>'
TenantSegment(hostname) == Str(SubSeq(hostname.v, 1, Len(hostname.v) - Len(api_host) - 1))

\* dispatch has acted on request r
Dispatched(r) == request[r] # None

\* C1: a request for a path outside the allow-list whose host is a string
\* other than '<tenant>.<api host>' (tenant non-empty, without a dot) makes
\* dispatch raise the not-found error with error_code ApplicationMissing;
\* the next stage is never invoked and no tenant id is stored on the request.
C1_Rejection ==
    \A r \in Reqs :
        (/\ Dispatched(r)
         /\ request[r].path \notin allowed_endpoints
         /\ request[r].hostname # None
         /\ ~IsTenantHost(request[r].hostname))
        => /\ pc[r] = "raised"
           /\ exc[r] = ApplicationMissing
           /\ nextCalls[r] = 0
           /\ request[r].state.id = None

\* a host with text after the api host was rejected before the next stage
C1_Witness ==
    /\ pc["r1"] = "raised"
    /\ request["r1"].path = "/v1/sources"
    /\ request["r1"].hostname = Str("t.c.c.t")
    /\ exc["r1"] = ApplicationMissing
    /\ nextCalls["r1"] = 0

\* C2: a request for a path outside the allow-list whose host is
\* '<tenant>.<api host>' has exactly the tenant segment stored as
\* request.state.id before the next stage is invoked, the next stage is
\* invoked exactly once, and its response is returned unchanged.
C2_Acceptance ==
    \A r \in Reqs :
        (/\ Dispatched(r)
         /\ request[r].path \notin allowed_endpoints
         /\ IsTenantHost(request[r].hostname))
        => /\ pc[r] \in {"dispatch_await", "done"}
           /\ request[r].state.id = TenantSegment(request[r].hostname)
           /\ stateSeen[r].id = TenantSegment(request[r].hostname)
           /\ nextCalls[r] = 1
           /\ pc[r] = "done" => response[r] = produced[r]

\* the host 'tt.c.c' was served for tenant 'tt'
C2_Witness ==
    /\ pc["r1"] = "done"
    /\ request["r1"].path = "/v1/sources"
    /\ request["r1"].hostname = Str("tt.c.c")
    /\ request["r1"].state.id = Str("tt")
    /\ response["r1"] = produced["r1"]

\* C3: a request whose path is one of the allow-listed paths passes to the
\* next stage whatever its host is, missing host included: dispatch does
\* not raise, calls the next stage once and sets no tenant id.
C3_AllowList ==
    \A r \in Reqs :
        (Dispatched(r) /\ request[r].path \in {"/health", "/service", "/docs", "/openapi.json"})
        => /\ pc[r] \in {"dispatch_await", "done"}
           /\ exc[r] = None
           /\ nextCalls[r] = 1
           /\ request[r].state.id = None
           /\ stateSeen[r].id = None

\* /docs was served for a request without a host
C3_Witness ==
    /\ pc["r1"] = "done"
    /\ request["r1"].path = "/docs"
    /\ request["r1"].hostname = None
    /\ nextCalls["r1"] = 1

\* C4: a request for a path outside the allow-list that carries no host
\* fails with the not-found error with error_code ApplicationMissing, and
\* with no other kind of error.
C4_MissingHost ==
    \A r \in Reqs :
        (/\ Dispatched(r)
         /\ request[r].path \notin allowed_endpoints
         /\ request[r].hostname = None)
        => /\ pc[r] = "raised"
           /\ exc[r] = ApplicationMissing

----------------------------------------------------------------------------
(* Claims about the assembled application (SpecApp) *)

\* the route handlers of /v1/sources
SourceHandlers == {"SourceController.get_sources", "SourceController.create_source"}

\* stage is the i-th stage the request passed
PassedAt(r, i, stage) == i \in 1..Len(stages[r]) /\ stages[r][i] = stage

\* C5: in the assembled application a request for /v1/sources passes the
\* tenant routing check before its route handler runs, and no route handler
\* of /v1/sources is reached by a request whose host is not
\* '<tenant>.<api host>'
C5_RoutingBeforeHandlers ==
    \A r \in Reqs : \A i \in 1..Len(stages[r]) :
        stages[r][i] \in SourceHandlers =>
            /\ \E j \in 1..(i - 1) : PassedAt(r, j, "RequestExtractorMiddleware")
            /\ IsTenantHost(request[r].hostname)

----------------------------------------------------------------------------
(* Claims about the observability middleware (Spec) *)

\* the coroutine of request r has ended: it returned a response or raised
Finished(r) == pc[r] \in {"done", "raised"}

\* the lines the coroutine of request r wrote, in order
LinesOf(r) == SelectSeq(log, LAMBDA line : line.req = r)

\* their messages
MessagesOf(r) == [i \in 1..Len(LinesOf(r)) |-> LinesOf(r)[i].message]

\* the next stage returned a response for request r
NextReturned(r) == produced[r] # None /\ produced[r].t = "Response"

\* the next stage raised for request r
NextRaised(r) == produced[r] # None /\ produced[r].t = "raised"

\* draining the stream of resp raises, or its first chunk cannot be decoded
DrainOrInspectionFails(resp) ==
    \/ resp.body_iterator.raises
    \/ /\ resp.body_iterator.items # <<>>
       /\ resp.body_iterator.items[1] = "\\xff"

\* C6: a request whose path is not /openapi.json, and whose next stage did
\* not raise, ends with exactly the two lines client_received_request and
\* client_sent_response, in this order, written by its coroutine.
C6_ReceivedThenSent ==
    \A r \in Reqs :
        (/\ Finished(r)
         /\ request[r].path # "/openapi.json"
         /\ ~NextRaised(r))
        => MessagesOf(r) = <<"client_received_request", "client_sent_response">>

\* C7: when draining and inspection succeed, the chunks read from the
\* response the middleware returns are the chunks of the response of the
\* next stage: the same chunks, in the same order, as many.
C7_BodyReplay ==
    \A r \in Reqs :
        (/\ pc[r] = "done"
         /\ ~DrainOrInspectionFails(produced[r]))
        => BodyChunks(response[r]) = BodyChunks(produced[r])

\* a body of two chunks was drained, logged and is read again in full
C7_Witness ==
    /\ pc["r1"] = "done"
    /\ produced["r1"].body_iterator.items = <<"{\"k\": \"v\"}", "plain">>
    /\ ~produced["r1"].body_iterator.raises
    /\ BodyChunks(response["r1"]) = <<"{\"k\": \"v\"}", "plain">>

\* the middleware answered request r with its 500 JSON response
AnsweredWith500(r) ==
    /\ pc[r] = "done"
    /\ exc[r] = None
    /\ response[r].status_code = 500
    /\ response[r].body_iterator = None
    /\ response[r].headers["content-type"] = "application/json"

\* the last line of request r is the sent event and its payload is the
\* body of the response
SentEventIsResponse(r) ==
    /\ LinesOf(r) # <<>>
    /\ LET line == LinesOf(r)[Len(LinesOf(r))]
       IN  /\ line.message = "client_sent_response"
           /\ JsonDumps(DictGet(line.detail, "payload")) = response[r].body

\* C8 as claimed: when draining or inspecting the body of the response of
\* the next stage raises, the middleware returns a 500 JSON response in its
\* place, logs it as the sent event, and no exception leaves it.
C8_Containment ==
    \A r \in Reqs :
        (/\ Finished(r)
         /\ NextReturned(r)
         /\ DrainOrInspectionFails(produced[r]))
        => /\ AnsweredWith500(r)
           /\ SentEventIsResponse(r)

\* C8 as amended: the same, but the sent event is written only when the
\* path is not /openapi.json; for /openapi.json the coroutine writes no
\* line at all.
C8_ContainmentExceptOpenapi ==
    \A r \in Reqs :
        (/\ Finished(r)
         /\ NextReturned(r)
         /\ DrainOrInspectionFails(produced[r]))
        => /\ AnsweredWith500(r)
           /\ request[r].path # "/openapi.json" => SentEventIsResponse(r)
           /\ request[r].path = "/openapi.json" => LinesOf(r) = <<>>

\* a stream that failed was answered with the 500 response and logged
C8_Witness ==
    /\ pc["r1"] = "done"
    /\ request["r1"].path = "/v1/sources"
    /\ produced["r1"].status_code = 200
    /\ produced["r1"].body_iterator.raises
    /\ response["r1"].status_code = 500
    /\ SentEventIsResponse("r1")

\* C9: every response the middleware returns, the 500 replacement
\* included, has a request_id header whose value is the id that was
\* generated for the request and stored in request.state before the next
\* stage was called.
C9_RequestIdHeader ==
    \A r \in Reqs :
        pc[r] = "done"
        => /\ "request_id" \in DOMAIN response[r].headers
           /\ stateSeen[r].request_id # None
           /\ response[r].headers["request_id"] = stateSeen[r].request_id.v
           /\ request[r].state.request_id = stateSeen[r].request_id

\* the 500 replacement carries the id of its request
C9_Witness ==
    /\ pc["r1"] = "done"
    /\ produced["r1"].status_code = 200
    /\ response["r1"].status_code = 500
    /\ response["r1"].headers["request_id"] = "uuid-1"
    /\ stateSeen["r1"].request_id = Str("uuid-1")

\* C10: also when the next stage raises, the middleware returns a
\* response with the request_id header, has written the sent event, and
\* lets no exception out.
C10_OutcomeIndependence ==
    \A r \in Reqs :
        (NextRaised(r) /\ request[r].path # "/openapi.json")
        => /\ pc[r] = "done"
           /\ exc[r] = None
           /\ "client_sent_response" \in {MessagesOf(r)[i] : i \in 1..Len(MessagesOf(r))}
           /\ "request_id" \in DOMAIN response[r].headers

\* the value of a field of the detail of a line, None when it is omitted
DetailOf(line, field) == DictGet(line.detail, field)

\* C11: the received and the sent line of a request that was answered carry
\* in their detail the id generated for the request, the value of the
\* request_id header of its response.
C11_CorrelationIdInLog ==
    \A r \in Reqs :
        (pc[r] = "done" /\ request[r].path # "/openapi.json")
        => \A i \in 1..Len(LinesOf(r)) :
               DetailOf(LinesOf(r)[i], "request_id") = Str(response[r].headers["request_id"])

\* C12: when draining and inspection succeed, the response the middleware
\* returns has the status code of the response of the next stage and its
\* headers, each with its value, plus the one header request_id.
C12_StatusAndHeaders ==
    \A r \in Reqs :
        (pc[r] = "done" /\ ~DrainOrInspectionFails(produced[r]))
        => /\ response[r].status_code = produced[r].status_code
           /\ DOMAIN response[r].headers = DOMAIN produced[r].headers \cup {"request_id"}
           /\ DOMAIN response[r].headers \ DOMAIN produced[r].headers = {"request_id"}
           /\ \A h \in DOMAIN produced[r].headers :
                  response[r].headers[h] = produced[r].headers[h]

\* a 404 with a header of its own went through the middleware
C12_Witness ==
    /\ pc["r1"] = "done"
    /\ produced["r1"].status_code = 404
    /\ produced["r1"].headers["x-extra"] = "1"
    /\ produced["r1"].body_iterator.items = <<"plain">>
    /\ response["r1"].status_code = 404
    /\ response["r1"].headers["x-extra"] = "1"
    /\ response["r1"].headers["request_id"] = "uuid-1"

\* the payload the received line of a request is to have: null for a
\* multipart/form-data upload, for an empty body and for a body that is not
\* JSON; the sanitized JSON value of the body otherwise
CapturedBody(req) ==
    IF ContentType(req) = "multipart/form-data" THEN None
    ELSE IF req.body = "" \/ ~IsUtf8(req.body) \/ ~IsJson(req.body) THEN None
         ELSE format_payload(JsonValue(req.body)).value

\* C13: once the middleware is past the capture of the request body, its
\* first line is the received event and its payload is the body as
\* captured: read unless the content type is multipart/form-data (also
\* when no content type is declared), null when empty or not JSON.
C13_RequestBodyCapture ==
    \A r \in Reqs :
        (/\ request[r] # None
         /\ pc[r] \notin {"idle", "await_body"}
         /\ request[r].path # "/openapi.json")
        => /\ LinesOf(r) # <<>>
           /\ LinesOf(r)[1].message = "client_received_request"
           /\ DetailOf(LinesOf(r)[1], "payload") = CapturedBody(request[r])

----------------------------------------------------------------------------
(* Claims about the Logger and its sanitizer (SpecLogger) *)

\* the calls of method made so far, as indices of calls
CallsOf(method) == {i \in 1..Len(calls) : calls[i].method = method}

\* C14: _format_payload applied to a payload it has returned returns that
\* payload again: a second application changes nothing, neither a value
\* cut to 100 characters and '...' nor a value replaced by '[masked]'.
C14_SanitizerIdempotence ==
    /\ \A i \in CallsOf("_format_payload") :
           format_payload(calls[i].returned) = [raise |-> None, value |-> calls[i].returned]
    /\ \A i \in CallsOf("_format_payload") :
           (i + 1 \in CallsOf("_format_payload") /\ calls[i + 1].argument = calls[i].returned)
           => calls[i + 1].returned = calls[i].returned

\* a payload with a long text and a password was sanitized twice
C14_Witness ==
    /\ Len(calls) = 2
    /\ calls[1].method = "_format_payload"
    /\ calls[2].method = "_format_payload"
    /\ calls[1].argument = Dict(<< <<"password", Str("v")>>,
                                   <<"text", Str(Repeat("a", TrimLength + 1))>> >>)
    /\ calls[2].argument = calls[1].returned
    /\ calls[2].returned = Dict(<< <<"password", Str("[masked]")>>,
                                   <<"text", Str(Repeat("a", TrimLength) \o "...")>> >>)

\* every key of the mask list that mapping before has holds the marker in
\* mapping after
MaskedIn(before, after) ==
    \A j \in 1..Len(before.v) :
        before.v[j][1] \in mask_properties
        => /\ after # None
           /\ DictGet(after, before.v[j][1]) = Str("[masked]")

\* C15: whatever the value of a top-level key of the mask list is, the
\* payload _format_payload returns, and the payload of every line info,
\* error and exception write, hold '[masked]' for that key.
C15_SanitizerMasking ==
    \A i \in 1..Len(calls) :
        calls[i].argument # None
        => /\ calls[i].method = "_format_payload"
                => MaskedIn(calls[i].argument, calls[i].returned)
           /\ \A l \in 1..Len(calls[i].lines) :
                MaskedIn(calls[i].argument, DetailOf(calls[i].lines[l], "payload"))

\* error wrote a line for a payload whose password is a number and whose
\* id_token is None
C15_Witness ==
    /\ Len(calls) = 1
    /\ calls[1].method = "error"
    /\ calls[1].argument = Dict(<< <<"password", PyInt(7)>>, <<"id_token", None>> >>)
    /\ Len(log) = 1
    /\ DetailOf(log[1], "payload") = Dict(<< <<"password", Str("[masked]")>>,
                                             <<"id_token", Str("[masked]")>> >>)

\* value is a string of more than 100 characters
IsLongString(value) == value.t = "str" /\ Len(value.v) > 100

\* C16: of a payload mapping, _format_payload replaces the value of a
\* top-level key of the trim list that is a string of more than 100
\* characters by its first 100 characters and '...'; it returns every
\* other value of a trim key, and every value of a key of neither list,
\* as it was, a nested mapping included; the keys stay as they were.
C16_SanitizerTrimming ==
    \A i \in CallsOf("_format_payload") :
        calls[i].argument # None
        => LET before == calls[i].argument.v
               after == calls[i].returned.v
           IN  /\ calls[i].raise = None
               /\ Len(after) = Len(before)
               /\ \A j \in 1..Len(before) :
                    /\ after[j][1] = before[j][1]
                    /\ (before[j][1] \in trim_properties /\ IsLongString(before[j][2]))
                          => after[j][2] = Str(SubSeq(before[j][2].v, 1, 100) \o "...")
                    /\ (before[j][1] \in trim_properties /\ ~IsLongString(before[j][2]))
                          => after[j][2] = before[j][2]
                    /\ before[j][1] \notin trim_properties \cup mask_properties
                          => after[j][2] = before[j][2]

\* a text of 101 characters was cut and a nested mapping with a password
\* was returned as it was
C16_Witness ==
    /\ Len(calls) = 1
    /\ calls[1].method = "_format_payload"
    /\ calls[1].argument =
           Dict(<< <<"text", Str(Repeat("a", 101))>>,
                   <<"k", Dict(<< <<"password", Str("s")>>, <<"n", None>> >>)>> >>)
    /\ calls[1].returned =
           Dict(<< <<"text", Str(Repeat("a", 100) \o "...")>>,
                   <<"k", Dict(<< <<"password", Str("s")>>, <<"n", None>> >>)>> >>)

\* a text of exactly 100 characters was returned as it was
C16_WitnessAtLength ==
    /\ Len(calls) = 1
    /\ calls[1].method = "_format_payload"
    /\ calls[1].argument = Dict(<< <<"text", Str(Repeat("a", 100))>> >>)
    /\ calls[1].returned = calls[1].argument

\* C17: _format_payload, and info, error and exception through it, leave
\* the payload object they were given as it was: after the call the
\* caller's payload holds its original values.
C17_SanitizerPurity ==
    \A i \in 1..Len(calls) : calls[i].left = calls[i].argument

\* C18: info writes no line when the path of the request is /openapi.json
\* and exactly one line for any other path; error and exception write
\* exactly one line for every path.
C18_LoggerSuppression ==
    \A i \in 1..Len(calls) :
        /\ (calls[i].method = "info" /\ request["r1"].path = "/openapi.json")
              => Len(calls[i].lines) = 0
        /\ (calls[i].method = "info" /\ request["r1"].path # "/openapi.json")
              => Len(calls[i].lines) = 1 /\ calls[i].lines[1].levelname = "INFO"
        /\ calls[i].method \in {"error", "exception"}
              => Len(calls[i].lines) = 1 /\ calls[i].lines[1].levelname = "ERROR"
        /\ calls[i].method # "_format_payload" => calls[i].raise = None

\* on /openapi.json info wrote nothing and error, called next, one line
C18_Witness ==
    /\ request["r1"].path = "/openapi.json"
    /\ Len(calls) = 2
    /\ calls[1].method = "info"
    /\ calls[2].method = "error"
    /\ Len(log) = 1
    /\ log[1].levelname = "ERROR"

\* the keys of a mapping
KeysOf(dict) == {dict.v[j][1] : j \in 1..Len(dict.v)}

\* a mapping in value, at any depth, has a key whose value is None
RECURSIVE HasNoneValuedKey(_)
HasNoneValuedKey(value) ==
    CASE value.t = "dict" ->
            \E j \in 1..Len(value.v) :
                value.v[j][2] = None \/ HasNoneValuedKey(value.v[j][2])
      [] value.t = "list" -> \E j \in 1..Len(value.v) : HasNoneValuedKey(value.v[j])
      [] OTHER -> FALSE

\* C19: in every line written, a field of the detail without a value (no
\* x-forwarded-for header, no request_id header, a None payload) is left
\* out of the detail, no mapping nested in the detail has a key whose
\* value is None, and a None payload goes through the sanitizer as None
\* without an error.
C19_OmissionOfEmptyFields ==
    /\ \A l \in 1..Len(log) :
           /\ request["r1"].headers["x-forwarded-for"] = None
                 => "x-forwarded-for" \notin KeysOf(log[l].detail)
           /\ request["r1"].headers["request_id"] = None
                 => "request_id" \notin KeysOf(log[l].detail)
           /\ ~HasNoneValuedKey(log[l].detail)
    /\ \A i \in 1..Len(calls) :
           calls[i].argument = None
           => /\ calls[i].raise = None
              /\ calls[i].returned = None
              /\ \A l \in 1..Len(calls[i].lines) :
                    "payload" \notin KeysOf(calls[i].lines[l].detail)

\* the part of C19 about the fields of the detail and the mappings nested
\* in it directly, mapping in mapping
RECURSIVE HasNoneValuedKeyInMappings(_)
HasNoneValuedKeyInMappings(value) ==
    /\ value.t = "dict"
    /\ \E j \in 1..Len(value.v) :
           value.v[j][2] = None \/ HasNoneValuedKeyInMappings(value.v[j][2])

\* no field of the detail, and no key of a mapping nested mapping in
\* mapping, is None in a line written
OmissionInMappings ==
    \A l \in 1..Len(log) : ~HasNoneValuedKeyInMappings(log[l].detail)

----------------------------------------------------------------------------
(* Claims about the exception handlers (SpecTranslator) *)

\* request r was answered by handler
AnsweredBy(r, handler) == stages[r] # <<>> /\ stages[r][Len(stages[r])] = handler

\* C20: for a typed application error, exception_handler returns a JSON
\* response whose status is the http_status of the error and whose body is
\* the envelope of error_code, message and detail as the error holds
\* them, and target '<METHOD>|<path>' of the request.
C20_TypedErrorTranslation ==
    \A r \in Reqs :
        AnsweredBy(r, "exception_handler")
        => /\ response[r].status_code = exc[r].http_status
           /\ response[r].headers["content-type"] = "application/json"
           /\ response[r].body =
                 "{\"error_code\":\"" \o exc[r].error_code
                 \o "\",\"message\":\"" \o exc[r].message
                 \o "\",\"detail\":"
                 \o (IF exc[r].detail = None THEN "null"
                     ELSE "\"" \o exc[r].detail.v \o "\"")
                 \o ",\"target\":\"" \o request[r].method \o "|" \o request[r].path
                 \o "\"}"

\* the error of the specification's example, on GET /test
C20_Witness ==
    /\ AnsweredBy("r1", "exception_handler")
    /\ request["r1"].method = "GET"
    /\ request["r1"].path = "/test"
    /\ exc["r1"] = HTTPError(400, "BadRequest", "Bad request", Str("Invalid parameters"))
    /\ response["r1"].status_code = 400
    /\ response["r1"].body =
          "{\"error_code\":\"BadRequest\",\"message\":\"Bad request\",\"detail\":\"Invalid parameters\",\"target\":\"GET|/test\"}"

\* C21: for a framework HTTP error, default_exception_handler returns a
\* JSON response whose status is the status code of the error and whose
\* body is the envelope of the fixed error_code GenericExceptionRaised, the
\* fixed message, the string form of the detail of the error, and target
\* '<METHOD>|<path>' of the request.
C21_FrameworkErrorTranslation ==
    \A r \in Reqs :
        AnsweredBy(r, "default_exception_handler")
        => /\ response[r].status_code = exc[r].status_code
           /\ response[r].headers["content-type"] = "application/json"
           /\ response[r].body =
                 "{\"error_code\":\"GenericExceptionRaised\""
                 \o ",\"message\":\"Something went wrong inside a process.\""
                 \o ",\"detail\":\""
                 \o (CASE exc[r].detail = Str("Server error") -> "Server error"
                       [] exc[r].detail = PyInt(7) -> "7"
                       [] exc[r].detail = None -> "None")
                 \o "\",\"target\":\"" \o request[r].method \o "|" \o request[r].path
                 \o "\"}"

\* a 404 whose detail is a number was translated
C21_Witness ==
    /\ AnsweredBy("r1", "default_exception_handler")
    /\ request["r1"].method = "PUT"
    /\ request["r1"].path = "/v1/sources/1"
    /\ exc["r1"] = HTTPException(404, PyInt(7))
    /\ response["r1"].status_code = 404
    /\ response["r1"].body =
          "{\"error_code\":\"GenericExceptionRaised\",\"message\":\"Something went wrong inside a process.\",\"detail\":\"7\",\"target\":\"PUT|/v1/sources/1\"}"

\* the request of r was handed to handler
HandledBy(r, handler) ==
    \E i \in 1..Len(stages[r]) : stages[r][i] = handler

\* C22: python_exception_handler always returns status 500 with error_code
\* InternalServerError and the string of the error as detail, and
\* request_validation_error_handler always returns status 400 with
\* error_code RequestValidationError and the list of failures as detail,
\* whatever the error holds.
C22_FixedStatusTranslations ==
    \A r \in Reqs :
        /\ AnsweredBy(r, "python_exception_handler")
           => /\ response[r] # None
              /\ response[r].status_code = 500
              /\ response[r].body =
                    JsonDumps(Dict(<< <<"error_code", Str("InternalServerError")>>,
                                      <<"message", Str("Something went wrong!")>>,
                                      <<"detail", Str(exc[r].message)>>,
                                      <<"target", Str(request[r].method \o "|"
                                                      \o request[r].path)>> >>))
        /\ AnsweredBy(r, "request_validation_error_handler")
           => /\ response[r] # None
              /\ response[r].status_code = 400
              /\ response[r].body =
                    JsonDumps(Dict(<< <<"error_code", Str("RequestValidationError")>>,
                                      <<"message", Str("There are errors in the request.")>>,
                                      <<"detail", exc[r].errors>>,
                                      <<"target", Str(request[r].method \o "|"
                                                      \o request[r].path)>> >>))

\* the error envelope: a JSON body of exactly the four fields
Envelope(error_code, message, detail, target) ==
    JsonDumps(Dict(<< <<"error_code", Str(error_code)>>, <<"message", Str(message)>>,
                      <<"detail", detail>>, <<"target", Str(target)>> >>))

\* C23: every error response has a JSON body of exactly the four fields
\* error_code, message, detail and target, with target '<METHOD>|<path>' of
\* the failing request; here for the response the middleware builds when
\* draining or inspecting the response of the next stage fails.
C23_UniformErrorEnvelope ==
    \A r \in Reqs :
        (/\ pc[r] = "done"
         /\ NextReturned(r)
         /\ DrainOrInspectionFails(produced[r]))
        => \E exception \in {RuntimeError("body stream failed"), UnicodeDecodeError} :
              response[r].body =
                 Envelope("InternalServerError", "Something went wrong!",
                          Str(exception.message),
                          request[r].method \o "|" \o request[r].path)

\* the handlers of exception.py
ErrorHandlers ==
    {"exception_handler", "default_exception_handler", "python_exception_handler",
     "request_validation_error_handler"}

\* the lines of severity ERROR the coroutine of request r wrote
ErrorLinesOf(r) == SelectSeq(LinesOf(r), LAMBDA line : line.levelname = "ERROR")

\* C24: a request that took an error path (one of the handlers of
\* exception.py was called for it) and was answered has exactly one line of
\* severity ERROR: none was answered without a line, none has two.
C24_OneErrorLine ==
    \A r \in Reqs :
        (/\ pc[r] \in {"done", "failed"}
         /\ \E handler \in ErrorHandlers : HandledBy(r, handler))
        => Len(ErrorLinesOf(r)) = 1

\* the other request
Other(r) == CHOOSE o \in Reqs : o # r

\* the position in the log of the line of request r with the message
PositionOf(r, message) ==
    CHOOSE i \in 1..Len(log) : log[i].req = r /\ log[i].message = message

C26_HealthEndpoint ==
    \A r \in Reqs :
        (/\ pc[r] \in {"done", "failed"}
         /\ request[r].method = "GET"
         /\ request[r].path = "/health")
        => /\ response[r].status_code = 200
           /\ BodyChunks(response[r]) = <<"{\"healthy\":true}">>
           /\ \A handler \in ErrorHandlers : ~HandledBy(r, handler)

\* C27: whatever JSON value the body of the request and the first chunk of
\* the response parse to, writing the received and the sent line raises
\* nothing: a request whose body can be decoded, and whose next stage
\* returned a response, is answered by the middleware.
C27_LoggingIsTotal ==
    \A r \in Reqs :
        (/\ Finished(r)
         /\ IsUtf8(request[r].body)
         /\ ~NextRaised(r))
        => /\ pc[r] = "done"
           /\ exc[r] = None

\* the response has no chunk, or a first chunk that is not JSON: plain
\* text, an empty chunk, or bytes that are not UTF-8
FirstChunkUnparseable(resp) ==
    \/ resp.body_iterator.items = <<>>
    \/ ~IsUtf8(resp.body_iterator.items[1])
    \/ ~IsJson(resp.body_iterator.items[1])

\* C28: when the stream of the response of the next stage can be drained
\* and the response has no chunk or a first chunk that is not JSON, the
\* middleware returns it with its status and its chunks, and the sent line
\* it writes has no payload.
C28_UnparseableBodyDelivered ==
    \A r \in Reqs :
        (/\ pc[r] = "done"
         /\ NextReturned(r)
         /\ ~produced[r].body_iterator.raises
         /\ FirstChunkUnparseable(produced[r]))
        => /\ response[r].status_code = produced[r].status_code
           /\ BodyChunks(response[r]) = produced[r].body_iterator.items
           /\ request[r].path # "/openapi.json"
              => /\ LinesOf(r)[Len(LinesOf(r))].message = "client_sent_response"
                 /\ DetailOf(LinesOf(r)[Len(LinesOf(r))], "payload") = None

\* C29: after any constructions of Loggers with equal or different names, a
\* call of error or exception, or of info for a path that is not excluded,
\* on an instance constructed earlier writes exactly one line.
C29_InstancesDoNotInterfere ==
    \A i \in 1..Len(calls) :
        (/\ i = Len(calls)
         /\ calls[i].method \in {"info", "error", "exception"}
         /\ ~(calls[i].method = "info" /\ request["r1"].path = "/openapi.json"))
        => Len(calls[i].lines) = 1

\* the elements the calls of __anext__ returned, in order
Yielded ==
    LET returning == SelectSeq(calls, LAMBDA call : call.raise = None)
    IN  [i \in 1..Len(returning) |-> returning[i].returned]

\* C30: the calls of __anext__ on a wrapper built over a sequence return
\* its elements in their order, each once: call i returns element i, and
\* every call after the last element signals StopAsyncIteration, the first
\* call for an empty sequence and every call made once the end was
\* signalled.
C30_ReplayOrder ==
    async_wrapper # None
    => /\ \A i \in 1..Len(calls) :
             IF i <= Len(async_wrapper.items)
             THEN /\ calls[i].raise = None
                  /\ calls[i].returned = async_wrapper.items[i]
             ELSE /\ calls[i].raise = StopAsyncIteration
                  /\ calls[i].returned = None
       /\ Yielded = SubSeq(async_wrapper.items, 1, Len(Yielded))
       /\ Len(calls) >= Len(async_wrapper.items) => Yielded = async_wrapper.items

\* a sequence of two equal chunks was read to its end and the end was
\* signalled twice
C30_Witness ==
    /\ async_wrapper # None
    /\ async_wrapper.items = <<"plain", "plain">>
    /\ Len(calls) = 4
    /\ Yielded = <<"plain", "plain">>
    /\ calls[3].raise = StopAsyncIteration
    /\ calls[4].raise = StopAsyncIteration

====
